---- MODULE Spec2Model ----
(***************************************************************************)
(* Model of climate_data_app.py: the year-by-year consolidation of the     *)
(* stations' daily series, the average of the other stations, the filling  *)
(* of the last station's gaps (the Trade column), the audit log and the    *)
(* multi-year table.                                                       *)
(*                                                                         *)
(* Numbers are exact rationals <<num, den>> in lowest terms with den > 0;  *)
(* NaN is <<0, 0>>.  Station names are only ever compared for equality, so *)
(* the distinct names typed at the prompt are written 1, 2, ... in the     *)
(* order they were entered.                                                *)
(***************************************************************************)
EXTENDS Integers, Sequences, FiniteSets, TLC

\* ---------------------------------------------------------------- bounds
MaxStations == 3      \* stations entered at the prompt
MaxFiles    == 2      \* entries one directory listing returns
MaxRows     == 2      \* rows of one data file
MaxCells    == 4      \* rows loaded from files over a whole run

\* ------------------------------------------------------ program constants
start_year == 1981
end_year   == 2010

\* Years for which the station folders hold data files.
FileYears == {2009, 2010}

\* ---------------------------------------------------------------- values
NaN == <<0, 0>>
Num(n) == <<n, 1>>
isna(v) == v[2] = 0
notna(v) == v[2] # 0

Abs(n) == IF n < 0 THEN -n ELSE n

RECURSIVE Gcd(_, _)
Gcd(a, b) == IF b = 0 THEN a ELSE Gcd(b, a % b)

\* n/d in lowest terms, d > 0.
Rat(n, d) == LET g == Gcd(Abs(n), d) IN <<n \div g, d \div g>>

RatAdd(a, b) == Rat(a[1] * b[2] + b[1] * a[2], a[2] * b[2])

RECURSIVE SumPresent(_)
SumPresent(vals) ==
    IF vals = <<>> THEN Num(0)
    ELSE IF isna(Head(vals)) THEN SumPresent(Tail(vals))
    ELSE RatAdd(Head(vals), SumPresent(Tail(vals)))

RECURSIVE CountPresent(_)
CountPresent(vals) ==
    IF vals = <<>> THEN 0
    ELSE (IF isna(Head(vals)) THEN 0 ELSE 1) + CountPresent(Tail(vals))

\* pandas mean with skipna: the mean of the present values, NaN when none.
mean(vals) ==
    LET c == CountPresent(vals)
        s == SumPresent(vals)
    IN IF c = 0 THEN NaN ELSE Rat(s[1], s[2] * c)

\* format(v, ".2f") for a present v, as a count of hundredths
\* (round to nearest, ties to even).
Format2f(v) ==
    LET n == 100 * v[1]
        d == v[2]
        q == n \div d
        r == n - q * d
    IN IF 2 * r > d THEN q + 1
       ELSE IF 2 * r < d THEN q
       ELSE IF q % 2 = 0 THEN q ELSE q + 1

\* ------------------------------------------------- file names and contents
NoSuffix == 100      \* a name with no ".NN" token at its end
None == 0            \* extract_year_from_filename found no year

extract_year_from_filename(filename) ==
    IF filename = NoSuffix THEN None
    ELSE IF filename > 50 THEN 1900 + filename
    ELSE 2000 + filename

\* A cell of the parsed frame: a number, a non-numeric token, or empty.
NumCell(n) == <<"num", n>>
StrCell == <<"str", 0>>
NaNCell == <<"nan", 0>>

to_numeric(cell) == IF cell[1] = "num" THEN Num(cell[2]) ELSE NaN

\* What pd.read_csv makes of a file: it raises, or yields a rectangular
\* frame of at least one row.
Unreadable == [readable |-> FALSE, rows |-> <<>>]
Frame(rows) == [readable |-> TRUE, rows |-> rows]

NoSeries == [ok |-> FALSE, data |-> <<>>]

\* The reader as it would be with the absent entries dropped.
read_dropna(frame) ==
    IF ~frame.readable THEN [ok |-> FALSE, data |-> <<>>]
    ELSE IF Len(frame.rows[1]) < 2 THEN [ok |-> FALSE, data |-> <<>>]
    ELSE [ok |-> TRUE,
          data |-> SelectSeq([i \in 1..Len(frame.rows) |-> to_numeric(frame.rows[i][2])],
                             notna)]

read_custom_space_separated_file(frame) ==
    IF ~frame.readable THEN NoSeries
    ELSE IF Len(frame.rows[1]) < 2 THEN NoSeries
    ELSE [ok |-> TRUE,
          data |-> [i \in 1..Len(frame.rows) |-> to_numeric(frame.rows[i][2])]]

\* --------------------------------------------------------- directory scan
\* One entry of os.listdir(station_path): a sub-directory, or a file with
\* its name (the two-digit token, or NoSuffix) and what reading it gives.
Entry(d, n, f) == [is_dir |-> d, name |-> n, frame |-> f]

RECURSIVE concat(_)
concat(parts) ==
    IF parts = <<>> THEN <<>> ELSE Head(parts) \o concat(Tail(parts))

\* The scan as it would be if a sub-directory ended the loop.
RECURSIVE ScanFiles_BreakOnDir(_, _, _, _, _)
ScanFiles_BreakOnDir(entries, i, year, parts, found) ==
    IF i > Len(entries) THEN [parts |-> parts, found |-> found]
    ELSE LET e == entries[i] IN
         IF e.is_dir THEN [parts |-> parts, found |-> found]
         ELSE IF extract_year_from_filename(e.name) = year
              THEN LET extracted == read_custom_space_separated_file(e.frame) IN
                   IF extracted.ok
                   THEN ScanFiles_BreakOnDir(entries, i + 1, year,
                                             Append(parts, extracted.data), TRUE)
                   ELSE ScanFiles_BreakOnDir(entries, i + 1, year, parts, TRUE)
              ELSE ScanFiles_BreakOnDir(entries, i + 1, year, parts, found)

\* The scan as it would be if a file that fails to load ended the loop.
RECURSIVE ScanFiles_StopOnFailure(_, _, _, _, _)
ScanFiles_StopOnFailure(entries, i, year, parts, found) ==
    IF i > Len(entries) THEN [parts |-> parts, found |-> found]
    ELSE LET e == entries[i] IN
         IF e.is_dir THEN ScanFiles_StopOnFailure(entries, i + 1, year, parts, found)
         ELSE IF extract_year_from_filename(e.name) = year
              THEN LET extracted == read_custom_space_separated_file(e.frame) IN
                   IF extracted.ok
                   THEN ScanFiles_StopOnFailure(entries, i + 1, year,
                                                Append(parts, extracted.data), TRUE)
                   ELSE [parts |-> parts, found |-> TRUE]
              ELSE ScanFiles_StopOnFailure(entries, i + 1, year, parts, found)

\* The loop over one station's directory listing (lines 131-154), from
\* entry i on: the series read so far and the found-a-file flag.
RECURSIVE ScanFiles(_, _, _, _, _)
ScanFiles(entries, i, year, parts, found) ==
    IF i > Len(entries) THEN [parts |-> parts, found |-> found]
    ELSE LET e == entries[i] IN
         IF e.is_dir THEN ScanFiles(entries, i + 1, year, parts, found)
         ELSE IF extract_year_from_filename(e.name) = year
              THEN LET extracted == read_custom_space_separated_file(e.frame) IN
                   IF extracted.ok
                   THEN ScanFiles(entries, i + 1, year,
                                  Append(parts, extracted.data), TRUE)
                   ELSE ScanFiles(entries, i + 1, year, parts, TRUE)
              ELSE ScanFiles(entries, i + 1, year, parts, found)

current_station_data_parts(entries, year) ==
    ScanFiles(entries, 1, year, <<>>, FALSE).parts

\* all_station_series after one station's scan (lines 156-163).
StoreStation(series, station, parts) ==
    IF parts # <<>>
    THEN [s \in DOMAIN series \cup {station} |->
             IF s = station THEN concat(parts) ELSE series[s]]
    ELSE series

\* ------------------------------------------------------ the year's table
Max(S) == CHOOSE m \in S : \A x \in S : x <= m

\* The table length as it would be with the columns joined on the rows
\* every station has.
min_data_length(series) ==
    CHOOSE m \in {Len(series[s]) : s \in DOMAIN series} :
       \A s \in DOMAIN series : m <= Len(series[s])

\* pd.concat(..., axis=1): one column per station, NaN below a short one.
max_data_length(series) == Max({Len(series[s]) : s \in DOMAIN series})

Column(ser, n) == [i \in 1..n |-> IF i <= Len(ser) THEN ser[i] ELSE NaN]

df_consolidated(series) ==
    [s \in DOMAIN series |-> Column(series[s], max_data_length(series))]

days_column(n) == [i \in 1..n |-> i]

last_station_col_name(names) == names[Len(names)]

\* The averaged columns as they would be with the last station among them.
data_columns_with_last(names, cols) ==
    IF Len(names) > 1
    THEN {names[k] : k \in 1..Len(names)} \cap DOMAIN cols
    ELSE {}

\* The stations whose columns are averaged (lines 188-193).
data_columns_for_average(names, cols) ==
    IF Len(names) > 1
    THEN {names[k] : k \in 1..(Len(names) - 1)} \cap DOMAIN cols
    ELSE {}

RECURSIVE SetToSeq(_)
SetToSeq(S) ==
    IF S = {} THEN <<>>
    ELSE LET x == CHOOSE y \in S : \A z \in S : y <= z
         IN <<x>> \o SetToSeq(S \ {x})

RowValues(cols, stations, i) ==
    LET order == SetToSeq(stations)
    IN [k \in 1..Len(order) |-> cols[order[k]][i]]

Average_Other_Stations(names, cols, n) ==
    LET avg_cols == data_columns_for_average(names, cols)
    IN IF avg_cols # {}
       THEN [i \in 1..n |-> mean(RowValues(cols, avg_cols, i))]
       ELSE [i \in 1..n |-> NaN]

\* The Trade column before the gaps are filled (line 205).
InitialTrade(names, cols, n) ==
    IF last_station_col_name(names) \in DOMAIN cols
    THEN cols[last_station_col_name(names)]
    ELSE [i \in 1..n |-> NaN]

\* The year's table before the gaps are filled (lines 169-205).
YearTable(series, names) ==
    LET cols == df_consolidated(series)
        n == max_data_length(series)
    IN [Day_of_Year |-> days_column(n),
        cols |-> cols,
        Average_Other_Stations |-> Average_Other_Stations(names, cols, n),
        Trade |-> InitialTrade(names, cols, n)]

\* One FillRecord of the audit log (lines 216-218); value is the average
\* as the log line prints it, in hundredths.
FillRecord(year, day, col, original, new_value) ==
    [year |-> year, day |-> day, station |-> col,
     original |-> original, value |-> Format2f(new_value)]

\* The gap-filling loop over the rows (lines 210-218), from row i on.
RECURSIVE FillLoop(_, _, _, _, _)
FillLoop(df, i, col, year, trades) ==
    IF i > Len(df.Trade) THEN [df |-> df, trades |-> trades]
    ELSE IF isna(df.Trade[i]) /\ notna(df.Average_Other_Stations[i])
         THEN FillLoop([df EXCEPT !.Trade[i] = df.Average_Other_Stations[i]],
                       i + 1, col, year,
                       Append(trades,
                              FillRecord(year, df.Day_of_Year[i], col,
                                         df.cols[col][i],
                                         df.Average_Other_Stations[i])))
         ELSE FillLoop(df, i + 1, col, year, trades)

Reverse(seq) == [i \in 1..Len(seq) |-> seq[Len(seq) + 1 - i]]

\* The filling as it would be if every gap were logged, filled or not.
FillGaps_LogEveryGap(df, names, year) ==
    LET col == last_station_col_name(names)
        r == IF col \in DOMAIN df.cols
             THEN FillLoop(df, 1, col, year, <<>>)
             ELSE [df |-> df, trades |-> <<>>]
        gaps == SelectSeq(df.Day_of_Year, LAMBDA d : isna(df.Trade[d]))
    IN [df |-> r.df,
        trades |-> IF col \in DOMAIN df.cols
                   THEN [k \in 1..Len(gaps) |->
                            FillRecord(year, gaps[k], col, NaN, Num(0))]
                   ELSE <<>>]

\* The filling as it would be if the rows were visited last to first.
FillGaps_Reversed(df, names, year) ==
    LET r == IF last_station_col_name(names) \in DOMAIN df.cols
             THEN FillLoop(df, 1, last_station_col_name(names), year, <<>>)
             ELSE [df |-> df, trades |-> <<>>]
    IN [df |-> r.df, trades |-> Reverse(r.trades)]

\* Lines 207-219: the loop runs only when the last station has a column.
FillGaps(df, names, year) ==
    IF last_station_col_name(names) \in DOMAIN df.cols
    THEN FillLoop(df, 1, last_station_col_name(names), year, <<>>)
    ELSE [df |-> df, trades |-> <<>>]

\* The stored Trade as it would be with the absent days dropped.
TradeByDay_DropNaN(df) ==
    [d \in {df.Day_of_Year[i] : i \in {j \in 1..Len(df.Day_of_Year) : notna(df.Trade[j])}} |->
        df.Trade[CHOOSE i \in 1..Len(df.Day_of_Year) : df.Day_of_Year[i] = d]]

\* df[['Day_of_Year', 'Trade']].set_index('Day_of_Year')['Trade'] (line 224)
TradeByDay(df) ==
    [d \in {df.Day_of_Year[i] : i \in 1..Len(df.Day_of_Year)} |->
        df.Trade[CHOOSE i \in 1..Len(df.Day_of_Year) : df.Day_of_Year[i] = d]]

\* The "Mean" row appended to the year's table (lines 230-241).
mean_row_series(df) ==
    [cols |-> [s \in DOMAIN df.cols |-> mean(df.cols[s])],
     Average_Other_Stations |-> mean(df.Average_Other_Stations),
     Trade |-> mean(df.Trade)]

\* pd.DataFrame(all_years_trade_data) (lines 274, 313): one column per
\* stored year over the union of the days, NaN where a year has no such day.
MultiYearTable(data) ==
    LET days == UNION {DOMAIN data[y] : y \in DOMAIN data}
    IN [y \in DOMAIN data |->
           [d \in days |-> IF d \in DOMAIN data[y] THEN data[y][d] ELSE NaN]]

EmptyFrame ==
    [Day_of_Year |-> <<>>, cols |-> <<>>,
     Average_Other_Stations |-> <<>>, Trade |-> <<>>]
NoMeanRow == [cols |-> <<>>, Average_Other_Stations |-> NaN, Trade |-> NaN]

\* ------------------------------------------------------------------ state
VARIABLES
    pc,                    \* where run_climate_processor stands
    station_names,         \* the names entered, in order
    valid_station_paths,   \* the stations whose folder exists, in order
    target_year,           \* the year of the loop
    station_idx,           \* position of the station loop
    listing,               \* the directory listing, where a run is given one
    extracted_data,        \* what the file reader returned, in SpecLoader
    all_station_series,    \* station -> concatenated series of the year
    df_processed,          \* the year's table
    df_final_mean,         \* the Mean row of the year's exported table
    overall_trade_log,     \* the audit log
    all_years_trade_data,  \* year -> Trade by day
    excel_files,           \* years whose workbook was written
    txt_files,             \* years whose day/Trade text file was written
    final_excel,           \* the final workbook: station label and table
    final_csv,             \* the combined multi-year table written at the end
    trade_log_file,        \* the lines of overall_trade_log.txt
    cells_loaded           \* rows loaded so far, capped by MaxCells

vars == <<pc, station_names, valid_station_paths, target_year, station_idx,
          listing, extracted_data, all_station_series, df_processed,
          df_final_mean, overall_trade_log, all_years_trade_data,
          excel_files, txt_files, final_excel, final_csv, trade_log_file, cells_loaded>>

\* ------------------------------------------------------------------ inputs
\* Files the run never reads hold a loadable series all the same.
OtherFrame == Frame(<<<<NumCell(9), NumCell(1)>>>>)
NarrowFrame == Frame(<<<<NumCell(1)>>>>)

Cells == {StrCell, NumCell(1), NumCell(2)}

\* Two-column frames of n rows; the first column is a day stamp.
DataFrames(n) ==
    {Frame([i \in 1..n |-> <<NumCell(9), col[i]>>]) : col \in [1..n -> Cells]}

\* A file of another year, which every listing of the run may begin with.
OtherYearFile == Entry(FALSE, 51, OtherFrame)

\* The files of `year` a listing may hold: an unreadable file and the data
\* files of at most r rows.
Entries(year, r) ==
    IF year \in FileYears
    THEN {Entry(FALSE, year % 100, f) :
            f \in {Unreadable}
                  \cup UNION {DataFrames(n) : n \in 1..(IF r < MaxRows THEN r ELSE MaxRows)}}
    ELSE {}

RowsLoaded(entries, year) == Len(concat(current_station_data_parts(entries, year)))

\* Sequences of at most k files of `year` that load at most r rows.
RECURSIVE YearFiles(_, _, _)
YearFiles(k, year, r) ==
    IF k = 0 THEN {<<>>}
    ELSE {<<>>} \cup
         UNION {{<<e>> \o t : t \in YearFiles(k - 1, year, r - RowsLoaded(<<e>>, year))} :
                e \in Entries(year, r)}

\* The listings of the run, by year and by rows still to load.
ListingsFor ==
    [year \in start_year..end_year |->
        [r \in 0..MaxCells |->
            LET files == YearFiles(MaxFiles, year, r)
            IN files \cup {<<OtherYearFile>> \o t : t \in files}]]

Stations(n) == [i \in 1..n |-> i]

\* The entries of seq at the positions of keep, in order.
RECURSIVE SelectSeq2(_, _)
SelectSeq2(seq, keep) ==
    IF seq = <<>> THEN <<>>
    ELSE (IF Head(seq) \in keep THEN <<Head(seq)>> ELSE <<>>)
         \o SelectSeq2(Tail(seq), keep)

\* ----------------------------------------------------------------- actions
Init ==
    /\ pc = "validate"
    /\ station_names \in {Stations(n) : n \in 1..MaxStations}
    /\ valid_station_paths = <<>>
    /\ target_year = start_year
    /\ station_idx = 1
    /\ listing = <<>>
    /\ extracted_data = NoSeries
    /\ all_station_series = <<>>
    /\ df_processed = EmptyFrame
    /\ df_final_mean = NoMeanRow
    /\ overall_trade_log = <<>>
    /\ all_years_trade_data = <<>>
    /\ excel_files = {}
    /\ txt_files = {}
    /\ final_excel = <<>>
    /\ final_csv = <<>>
    /\ trade_log_file = <<>>
    /\ cells_loaded = 0

\* Lines 96-114: the base directory and the station folders are looked up;
\* the run ends when the base directory or every station folder is missing.
\* The folder of the first or of the last station may be the missing one.
ValidateFolders ==
    /\ pc = "validate"
    /\ \E base_ok \in BOOLEAN :
       \E missing \in {{}, {station_names[1]}, {station_names[Len(station_names)]}} :
          LET found == SelectSeq2(station_names,
                          {station_names[i] : i \in 1..Len(station_names)} \ missing)
          IN IF base_ok /\ found # <<>>
             THEN /\ valid_station_paths' = found
                  /\ pc' = "year"
             ELSE /\ valid_station_paths' = <<>>
                  /\ pc' = "exit"
    /\ UNCHANGED <<station_names, target_year, station_idx, listing,
                   extracted_data, all_station_series, df_processed,
                   df_final_mean, overall_trade_log, all_years_trade_data,
                   excel_files, txt_files, final_excel, final_csv,
                   trade_log_file, cells_loaded>>

\* Lines 123-125: the head of the loop over the years.
StartYear ==
    /\ pc = "year"
    /\ target_year <= end_year
    /\ all_station_series' = <<>>
    /\ station_idx' = 1
    /\ df_processed' = EmptyFrame
    /\ df_final_mean' = NoMeanRow
    /\ pc' = "scan"
    /\ UNCHANGED <<station_names, valid_station_paths, target_year, listing,
                   extracted_data, overall_trade_log, all_years_trade_data,
                   excel_files, txt_files, final_excel, final_csv,
                   trade_log_file, cells_loaded>>

\* Lines 126-163 for one station, given what os.listdir returns.
ScanWith(entries) ==
    /\ pc = "scan"
    /\ station_idx <= Len(valid_station_paths)
    /\ all_station_series' =
          StoreStation(all_station_series, valid_station_paths[station_idx],
                       current_station_data_parts(entries, target_year))
    /\ cells_loaded' = cells_loaded + RowsLoaded(entries, target_year)
    /\ station_idx' = station_idx + 1
    /\ UNCHANGED <<pc, station_names, valid_station_paths, target_year,
                   extracted_data, df_processed, df_final_mean,
                   overall_trade_log, all_years_trade_data, excel_files,
                   txt_files, final_excel, final_csv, trade_log_file>>

ScanStation ==
    /\ pc = "scan"
    /\ \E entries \in ListingsFor[target_year][MaxCells - cells_loaded] :
          ScanWith(entries)
    /\ UNCHANGED listing

\* The skip as it would be if the empty year were stored all the same.
SkipYear_StoresEmpty ==
    /\ pc = "scan"
    /\ station_idx > Len(valid_station_paths)
    /\ DOMAIN all_station_series = {}
    /\ all_years_trade_data' =
          [y \in DOMAIN all_years_trade_data \cup {target_year} |->
              IF y = target_year THEN <<>> ELSE all_years_trade_data[y]]
    /\ target_year' = target_year + 1
    /\ pc' = "year"
    /\ UNCHANGED <<station_names, valid_station_paths, station_idx, listing,
                   extracted_data, all_station_series, df_processed,
                   df_final_mean, overall_trade_log, excel_files, txt_files,
                   final_excel, final_csv, trade_log_file, cells_loaded>>

\* Lines 165-167: no station gave a series, on to the next year.
SkipYear ==
    /\ pc = "scan"
    /\ station_idx > Len(valid_station_paths)
    /\ DOMAIN all_station_series = {}
    /\ target_year' = target_year + 1
    /\ pc' = "year"
    /\ UNCHANGED <<station_names, valid_station_paths, station_idx, listing,
                   extracted_data, all_station_series, df_processed,
                   df_final_mean, overall_trade_log, all_years_trade_data,
                   excel_files, txt_files, final_excel, final_csv,
                   trade_log_file, cells_loaded>>

\* Lines 169-205: the consolidated table, the day numbers, the average of
\* the other stations and the Trade column as first created.
ConsolidateYear ==
    /\ pc = "scan"
    /\ station_idx > Len(valid_station_paths)
    /\ DOMAIN all_station_series # {}
    /\ df_processed' = YearTable(all_station_series, station_names)
    /\ pc' = "fill"
    /\ UNCHANGED <<station_names, valid_station_paths, target_year,
                   station_idx, listing, extracted_data, all_station_series,
                   df_final_mean, overall_trade_log, all_years_trade_data,
                   excel_files, txt_files, final_excel, final_csv,
                   trade_log_file, cells_loaded>>

\* Lines 207-219: the gaps of the last station are filled and logged.
FillYear ==
    /\ pc = "fill"
    /\ LET filled == FillGaps(df_processed, station_names, target_year)
       IN /\ df_processed' = filled.df
          /\ overall_trade_log' = overall_trade_log \o filled.trades
    /\ pc' = "store"
    /\ UNCHANGED <<station_names, valid_station_paths, target_year,
                   station_idx, listing, extracted_data, all_station_series,
                   df_final_mean, all_years_trade_data, excel_files,
                   txt_files, final_excel, final_csv, trade_log_file,
                   cells_loaded>>

\* Lines 221-266: the year's Trade is kept and the year's files are written.
\* The year's series and table are not read again and are dropped here.
StoreYear ==
    /\ pc = "store"
    /\ all_years_trade_data' =
          [y \in DOMAIN all_years_trade_data \cup {target_year} |->
              IF y = target_year THEN TradeByDay(df_processed)
              ELSE all_years_trade_data[y]]
    /\ df_final_mean' = mean_row_series(df_processed)
    /\ excel_files' = excel_files \cup {target_year}
    /\ txt_files' = IF df_processed.Trade # <<>>
                    THEN txt_files \cup {target_year} ELSE txt_files
    /\ all_station_series' = <<>>
    /\ df_processed' = EmptyFrame
    /\ target_year' = target_year + 1
    /\ pc' = "year"
    /\ UNCHANGED <<station_names, valid_station_paths, station_idx, listing,
                   extracted_data, overall_trade_log, final_excel, final_csv,
                   trade_log_file, cells_loaded>>

NoTradeLine == <<"No 'trade' operations">>

\* Lines 268-342: the multi-year files and the audit log file.
WriteFinalFiles ==
    /\ pc = "year"
    /\ target_year > end_year
    /\ IF DOMAIN all_years_trade_data # {} /\ Len(station_names) > 0
       THEN /\ final_excel' = [station |-> last_station_col_name(station_names),
                              table |-> MultiYearTable(all_years_trade_data)]
            /\ final_csv' = MultiYearTable(all_years_trade_data)
       ELSE UNCHANGED <<final_excel, final_csv>>
    /\ trade_log_file' = IF overall_trade_log # <<>>
                         THEN overall_trade_log ELSE NoTradeLine
    /\ pc' = "done"
    /\ UNCHANGED <<station_names, valid_station_paths, target_year,
                   station_idx, listing, extracted_data, all_station_series,
                   df_processed, df_final_mean, overall_trade_log,
                   all_years_trade_data, excel_files, txt_files, cells_loaded>>

Next ==
    \/ ValidateFolders
    \/ StartYear
    \/ ScanStation
    \/ SkipYear
    \/ ConsolidateYear
    \/ FillYear
    \/ StoreYear
    \/ WriteFinalFiles

Spec == Init /\ [][Next]_vars

\* ------------------------------------------- the file reader on its own
AllCells == {NumCell(1), NumCell(2), StrCell, NaNCell}

\* Frames of one, two or three columns whose first two columns vary.
LoaderFrames ==
    UNION {{Frame([i \in 1..n |-> <<col[i]>>]) : col \in [1..n -> AllCells]}
           \cup {Frame([i \in 1..n |-> <<NumCell(9), col[i]>>]) : col \in [1..n -> AllCells]}
           \cup {Frame([i \in 1..n |-> <<NumCell(9), col[i], NumCell(7)>>]) : col \in [1..n -> AllCells]}
           : n \in 1..MaxRows}
    \cup {Unreadable}

InitLoader ==
    /\ pc = "read"
    /\ station_names = Stations(1)
    /\ valid_station_paths = Stations(1)
    /\ target_year = end_year
    /\ station_idx = 1
    /\ listing \in {<<Entry(FALSE, end_year % 100, f)>> : f \in LoaderFrames}
    /\ extracted_data = NoSeries
    /\ all_station_series = <<>>
    /\ df_processed = EmptyFrame
    /\ df_final_mean = NoMeanRow
    /\ overall_trade_log = <<>>
    /\ all_years_trade_data = <<>>
    /\ excel_files = {}
    /\ txt_files = {}
    /\ final_excel = <<>>
    /\ final_csv = <<>>
    /\ trade_log_file = <<>>
    /\ cells_loaded = 0

\* Line 144: the reader is called on the file of the listing.
ReadFile ==
    /\ pc = "read"
    /\ extracted_data' = read_custom_space_separated_file(listing[1].frame)
    /\ pc' = "read_done"
    /\ UNCHANGED <<station_names, valid_station_paths, target_year,
                   station_idx, listing, all_station_series, df_processed,
                   df_final_mean, overall_trade_log, all_years_trade_data,
                   excel_files, txt_files, final_excel, final_csv,
                   trade_log_file, cells_loaded>>

NextLoader == ReadFile

SpecLoader == InitLoader /\ [][NextLoader]_vars

\* --------------------------- one station's scan over any directory listing
AggYears == {1999, 2010}

AggCells == {NumCell(1), NumCell(2)}

AggFrames(n) ==
    {Frame([i \in 1..n |-> <<NumCell(9), col[i]>>]) : col \in [1..n -> AggCells]}

\* Sub-directories, names of other years, names without a year, and the
\* year's own files, readable or not.
AggEntries(year) ==
    {Entry(TRUE, year % 100, Unreadable),
     Entry(FALSE, NoSuffix, OtherFrame),
     Entry(FALSE, 51, OtherFrame),
     Entry(FALSE, 50, OtherFrame)}
    \cup {Entry(FALSE, y % 100, OtherFrame) : y \in AggYears \ {year}}
    \cup {Entry(FALSE, year % 100, f) :
            f \in {Unreadable, NarrowFrame} \cup UNION {AggFrames(n) : n \in 1..MaxRows}}

RECURSIVE SeqsUpTo(_, _)
SeqsUpTo(k, S) ==
    IF k = 0 THEN {<<>>}
    ELSE {<<>>} \cup {<<e>> \o t : e \in S, t \in SeqsUpTo(k - 1, S)}

\* The first station has given the series 1, 2; the last station's folder
\* is about to be listed.
InitAggregator ==
    /\ pc = "scan"
    /\ station_names = Stations(2)
    /\ valid_station_paths = Stations(2)
    /\ target_year \in AggYears
    /\ station_idx = 2
    /\ listing \in SeqsUpTo(MaxFiles, AggEntries(target_year))
    /\ extracted_data = NoSeries
    /\ all_station_series = (1 :> <<Num(1), Num(2)>>)
    /\ df_processed = EmptyFrame
    /\ df_final_mean = NoMeanRow
    /\ overall_trade_log = <<>>
    /\ all_years_trade_data = <<>>
    /\ excel_files = {}
    /\ txt_files = {}
    /\ final_excel = <<>>
    /\ final_csv = <<>>
    /\ trade_log_file = <<>>
    /\ cells_loaded = 2

ScanListing ==
    /\ ScanWith(listing)
    /\ UNCHANGED listing

NextAggregator ==
    \/ ScanListing
    \/ ConsolidateYear

SpecAggregator == InitAggregator /\ [][NextAggregator]_vars

\* ----------------------------------------------------------------- claims
YearTableBuilt == pc \in {"fill", "store"}
YearFilled == pc = "store"
Rows == 1..Len(df_processed.Day_of_Year)
Target == last_station_col_name(station_names)

\* The target station's value on row i: absent too when the target has no
\* column in the year's table.
TargetValue(i) ==
    IF Target \in DOMAIN df_processed.cols
    THEN df_processed.cols[Target][i] ELSE NaN

\* C1: on every row of a processed year's table Trade is the target
\* station's value when present, AverageOfOthers when the target is absent
\* and the average present, and absent when both are absent; this also in
\* years where the target station contributed no data.
C1_TradeIsTargetElseAverage ==
    YearFilled =>
       \A i \in Rows :
          df_processed.Trade[i] =
             IF notna(TargetValue(i)) THEN TargetValue(i)
             ELSE df_processed.Average_Other_Stations[i]

\* What the code does instead: the rule of C1 holds in the years where the
\* target station has a column; where it has none, Trade is absent on
\* every row, whatever the average.
TradeWhenTargetHasColumn ==
    YearFilled =>
       IF Target \in DOMAIN df_processed.cols
       THEN \A i \in Rows :
               df_processed.Trade[i] =
                  IF notna(TargetValue(i)) THEN TargetValue(i)
                  ELSE df_processed.Average_Other_Stations[i]
       ELSE \A i \in Rows : isna(df_processed.Trade[i])

\* Row i had its Trade set from AverageOfOthers.
SetFromAverage(i) == isna(TargetValue(i)) /\ notna(df_processed.Trade[i])

RecordsFor(year, day) ==
    {k \in 1..Len(overall_trade_log) :
        overall_trade_log[k].year = year /\ overall_trade_log[k].day = day}

\* C2: the audit log holds exactly one FillRecord, with the year, the day
\* and the target station, for each row whose Trade was set from
\* AverageOfOthers, and none for any other row; every record of the log
\* belongs to one filled row of a processed year.
C2_OneFillRecordPerFill ==
    /\ YearFilled =>
          \A i \in Rows :
             LET recs == RecordsFor(target_year, df_processed.Day_of_Year[i])
             IN IF SetFromAverage(i)
                THEN /\ Cardinality(recs) = 1
                     /\ \A k \in recs : overall_trade_log[k].station = Target
                ELSE recs = {}
    /\ \A k \in 1..Len(overall_trade_log) :
          LET r == overall_trade_log[k]
          IN /\ Cardinality(RecordsFor(r.year, r.day)) = 1
             /\ IF r.year \in DOMAIN all_years_trade_data
                THEN /\ r.day \in DOMAIN all_years_trade_data[r.year]
                     /\ notna(all_years_trade_data[r.year][r.day])
                ELSE YearFilled /\ r.year = target_year

C2_Witness ==
    /\ YearFilled
    /\ \E i \in Rows : SetFromAverage(i)
    /\ \E i \in Rows : notna(TargetValue(i))
    /\ \E i \in Rows : isna(df_processed.Trade[i])

\* The other stations with a present value on row i of the year.
OthersPresent(i) ==
    {s \in DOMAIN all_station_series \ {Target} :
        i <= Len(all_station_series[s]) /\ notna(all_station_series[s][i])}

RECURSIVE SumOfRow(_, _)
SumOfRow(S, i) ==
    IF S = {} THEN 0
    ELSE LET s == CHOOSE x \in S : TRUE
         IN all_station_series[s][i][1] + SumOfRow(S \ {s}, i)

\* C3: on every row AverageOfOthers is the arithmetic mean of the present
\* values of the contributing stations other than the target, and absent
\* when no other station has a present value on the row.
C3_AverageOfOthers ==
    YearTableBuilt =>
       \A i \in Rows :
          LET avg == df_processed.Average_Other_Stations[i]
              others == OthersPresent(i)
          IN IF others = {} THEN isna(avg)
             ELSE /\ notna(avg)
                  /\ avg[1] * Cardinality(others) = avg[2] * SumOfRow(others, i)

C3_Witness ==
    /\ YearTableBuilt
    /\ \E i \in Rows :
          /\ Cardinality(OthersPresent(i)) = 2
          /\ df_processed.Average_Other_Stations[i][2] = 2
          /\ notna(TargetValue(i))
          /\ TargetValue(i) # df_processed.Average_Other_Stations[i]

\* C4: the year's table has exactly N rows, N the length of the longest
\* station series of the year, its days are 1..N in order, and a station
\* with a shorter series is absent on the rows beyond its length.
C4_TableRows ==
    YearTableBuilt =>
       LET N == Len(df_processed.Day_of_Year) IN
       /\ \E s \in DOMAIN all_station_series : Len(all_station_series[s]) = N
       /\ \A s \in DOMAIN all_station_series : Len(all_station_series[s]) <= N
       /\ \A i \in 1..N : df_processed.Day_of_Year[i] = i
       /\ DOMAIN df_processed.cols = DOMAIN all_station_series
       /\ \A s \in DOMAIN all_station_series :
             /\ Len(df_processed.cols[s]) = N
             /\ \A i \in 1..N :
                   df_processed.cols[s][i] =
                      IF i <= Len(all_station_series[s])
                      THEN all_station_series[s][i] ELSE NaN
       /\ Len(df_processed.Average_Other_Stations) = N
       /\ Len(df_processed.Trade) = N

C4_Witness ==
    /\ YearTableBuilt
    /\ \E s, t \in DOMAIN all_station_series :
          /\ Len(all_station_series[s]) < Len(all_station_series[t])
          /\ Len(all_station_series[s]) >= 1

\* C5: the multi-year table never holds a year whose Trade values are all
\* absent.
C5_NoAllAbsentYear ==
    \A y \in DOMAIN all_years_trade_data :
       \E d \in DOMAIN all_years_trade_data[y] :
          notna(all_years_trade_data[y][d])

\* C5 as amended: the multi-year table holds a column exactly for the years
\* whose table was built, each holding that table's Trade by day, also when
\* every value of it is absent; a year without any series adds no column.
C5_ColumnPerBuiltTable ==
    /\ [][all_years_trade_data' # all_years_trade_data =>
            /\ DOMAIN all_station_series # {}
            /\ DOMAIN all_years_trade_data'
                  = DOMAIN all_years_trade_data \cup {target_year}
            /\ DOMAIN all_years_trade_data'[target_year] = Rows
            /\ \A i \in Rows :
                  all_years_trade_data'[target_year][i] = df_processed.Trade[i]
            /\ \A y \in DOMAIN all_years_trade_data :
                  all_years_trade_data'[y] = all_years_trade_data[y]]_vars
    /\ [][pc = "store" => target_year \in DOMAIN all_years_trade_data']_vars
    /\ [](pc = "done" /\ DOMAIN all_years_trade_data # {} =>
            /\ DOMAIN final_csv = DOMAIN all_years_trade_data
            /\ \A y \in DOMAIN final_csv :
                  /\ DOMAIN all_years_trade_data[y] # {}
                  /\ \A d \in DOMAIN final_csv[y] :
                        final_csv[y][d] =
                           IF d \in DOMAIN all_years_trade_data[y]
                           THEN all_years_trade_data[y][d] ELSE NaN)

C5_Witness ==
    /\ pc = "done"
    /\ \E y \in DOMAIN final_csv : \A d \in DOMAIN final_csv[y] : isna(final_csv[y][d])
    /\ \E y \in DOMAIN final_csv : \E d \in DOMAIN final_csv[y] : notna(final_csv[y][d])

LogYears == {overall_trade_log[k].year : k \in 1..Len(overall_trade_log)}

\* C6: a year for which no station yields a series is skipped: no table,
\* no export and no FillRecord for it, it is no key of the multi-year
\* table, and the run goes on with the next year; a year for which some
\* station yields a series becomes a key.
C6_EmptyYearSkipped ==
    /\ [][target_year' # target_year =>
            /\ target_year' = target_year + 1
            /\ pc' = "year"
            /\ (DOMAIN all_station_series = {})
                  <=> (target_year \notin DOMAIN all_years_trade_data')
            /\ DOMAIN all_station_series = {} =>
                  /\ df_processed = EmptyFrame
                  /\ target_year \notin excel_files' \cup txt_files'
                  /\ \A k \in 1..Len(overall_trade_log') :
                        overall_trade_log'[k].year # target_year]_vars
    /\ [](/\ excel_files \cup txt_files \subseteq DOMAIN all_years_trade_data
          /\ DOMAIN all_years_trade_data \subseteq start_year..(target_year - 1)
          /\ LogYears \subseteq start_year..target_year
          /\ pc = "done" =>
                /\ LogYears \subseteq DOMAIN all_years_trade_data
                /\ DOMAIN final_csv = DOMAIN all_years_trade_data)

C6_Witness ==
    /\ pc = "done"
    /\ DOMAIN final_csv = {2009}
    /\ overall_trade_log # <<>>

\* C7: the audit log only grows at its end, and its (year, day) pairs are
\* strictly increasing along it.
C7_LogChronological ==
    /\ [](\A j, k \in 1..Len(overall_trade_log) :
             j < k =>
                \/ overall_trade_log[j].year < overall_trade_log[k].year
                \/ /\ overall_trade_log[j].year = overall_trade_log[k].year
                   /\ overall_trade_log[j].day < overall_trade_log[k].day)
    /\ [][/\ Len(overall_trade_log) <= Len(overall_trade_log')
          /\ SubSeq(overall_trade_log', 1, Len(overall_trade_log))
                = overall_trade_log]_vars

C7_Witness ==
    /\ Len(overall_trade_log) >= 2
    /\ overall_trade_log[1].year < overall_trade_log[2].year

\* ---------------------------------------- claims about one station's scan
Scanned == pc = "fill" \/ (pc = "scan" /\ station_idx > Len(valid_station_paths))
ScannedStation == valid_station_paths[Len(valid_station_paths)]

\* Entry e is a file of the year that the reader loads.
Loaded(e) ==
    /\ ~e.is_dir
    /\ extract_year_from_filename(e.name) = target_year
    /\ read_custom_space_separated_file(e.frame).ok

LoadedAt == {k \in 1..Len(listing) : Loaded(listing[k])}
DataAt(k) == read_custom_space_separated_file(listing[k].frame).data

RECURSIVE LenBefore(_)
LenBefore(k) ==
    IF k <= 1 THEN 0
    ELSE LenBefore(k - 1) + (IF (k - 1) \in LoadedAt THEN Len(DataAt(k - 1)) ELSE 0)

Perms(n) == {p \in [1..n -> 1..n] : \A i, j \in 1..n : i # j => p[i] # p[j]}
Reorder(entries, p) == [i \in 1..Len(entries) |-> entries[p[i]]]

\* The loaded files keep their relative order under p.
KeepsLoadedOrder(p) ==
    \A i, j \in 1..Len(listing) :
       (i < j /\ p[i] \in LoadedAt /\ p[j] \in LoadedAt) => p[i] < p[j]

OtherSeries ==
    [s \in DOMAIN all_station_series \ {ScannedStation} |-> all_station_series[s]]

\* The station series and the year's table of a run given `entries`.
SeriesOn(entries) ==
    StoreStation(OtherSeries, ScannedStation,
                 current_station_data_parts(entries, target_year))

SameResultOn(entries) ==
    /\ SeriesOn(entries) = all_station_series
    /\ pc = "fill" =>
          /\ YearTable(SeriesOn(entries), station_names) = df_processed
          /\ FillGaps(YearTable(SeriesOn(entries), station_names),
                      station_names, target_year)
                = FillGaps(df_processed, station_names, target_year)

\* C8: a run on the same files gives the same series, table, Trade and
\* FillRecords whatever order the directory listing returns the files in.
C8_AnyListingOrder ==
    Scanned =>
       \A p \in Perms(Len(listing)) : SameResultOn(Reorder(listing, p))

\* C8 as amended: the results are the same for every order of the listing
\* that keeps the loaded files of the year in the same relative order.
C8_SameLoadedOrder ==
    Scanned =>
       \A p \in Perms(Len(listing)) :
          KeepsLoadedOrder(p) => SameResultOn(Reorder(listing, p))

C8_Witness ==
    /\ pc = "fill"
    /\ \E i, j \in 1..Len(listing) :
          /\ i < j
          /\ listing[i].is_dir
          /\ j \in LoadedAt

\* C9: the station's series is the concatenation, in listing order, of the
\* series of the files of the year that loaded, each in its own order; a
\* file that fails to load is passed over, and a station without a loaded
\* file has no column in the year's table.
C9_ConcatInListingOrder ==
    Scanned =>
       IF LoadedAt = {}
       THEN /\ ScannedStation \notin DOMAIN all_station_series
            /\ pc = "fill" => ScannedStation \notin DOMAIN df_processed.cols
       ELSE /\ ScannedStation \in DOMAIN all_station_series
            /\ Len(all_station_series[ScannedStation]) = LenBefore(Len(listing) + 1)
            /\ \A k \in LoadedAt :
                  \A i \in 1..Len(DataAt(k)) :
                     all_station_series[ScannedStation][LenBefore(k) + i] = DataAt(k)[i]
            /\ pc = "fill" =>
                  \A i \in 1..Len(all_station_series[ScannedStation]) :
                     df_processed.cols[ScannedStation][i]
                        = all_station_series[ScannedStation][i]

C9_Witness ==
    /\ pc = "fill"
    /\ Len(listing) = 2
    /\ listing[1].frame = Unreadable
    /\ extract_year_from_filename(listing[1].name) = target_year
    /\ ~listing[1].is_dir
    /\ 2 \in LoadedAt
    /\ Len(DataAt(2)) = 2
    /\ DataAt(2)[1] # DataAt(2)[2]

\* ------------------------------------------- claims about the file reader
\* C10: a frame of N rows and at least two columns gives a series of N
\* entries in row order, entry i the number in the second column of row i,
\* or absent when that cell is no number; a frame of fewer than two
\* columns gives a load failure.
C10_LoaderKeepsRows ==
    pc = "read_done" =>
       LET frame == listing[1].frame IN
       frame.readable =>
          IF Len(frame.rows[1]) >= 2
          THEN /\ extracted_data.ok
               /\ Len(extracted_data.data) = Len(frame.rows)
               /\ \A i \in 1..Len(frame.rows) :
                     extracted_data.data[i] =
                        IF frame.rows[i][2][1] = "num"
                        THEN <<frame.rows[i][2][2], 1>> ELSE NaN
          ELSE ~extracted_data.ok

C10_Witness ==
    /\ pc = "read_done"
    /\ extracted_data.ok
    /\ Len(extracted_data.data) = 2
    /\ isna(extracted_data.data[1])
    /\ notna(extracted_data.data[2])
====
